---- MODULE Spec2Model ----
(***************************************************************************)
(* A model of sweepai/agents/modify_bot.py: ModifyBot.try_update_file, the *)
(* bounded retry loop around get_snippets_to_modify and update_file.       *)
(*                                                                         *)
(* One behaviour is one top-level call of try_update_file.  Each action is *)
(* one stage of a round; the answers of the collaborators (chat bots, the  *)
(* locator, the syntax tree, the validator, the leftover detector) are     *)
(* drawn from small sets.                                                  *)
(***************************************************************************)
EXTENDS Integers, Sequences, FiniteSets, TLC

(***************************************************************************)
(* Bounds of the model.                                                    *)
(***************************************************************************)
\* the number of trailing newline characters of a text that ends in
\* newlines (a text ends in none or in MaxNl of them)
MaxNl == 1
\* line counts of the text bodies considered: a file shorter than the
\* header region and a file long enough to hold a window of its own
ShortFile == 4
LongFile == 24
\* the quotations a fetch response may hold
MaxQueries == 1
\* the extraction terms a fetch response may hold
MaxTerms == 1
\* the hunks a generation response may hold
MaxHunks == 1
\* the rounds a behaviour may begin (more than the loop allows)
RoundCap == 8
\* the additional messages the ModifyBot is constructed with (the default
\* is additional_messages=[])
NumAdditional == 0
\* the number of lines of a located quotation
SpanLen == 2
\* the quotations of a fetch response where only the windows are computed
MaxPool == 2
\* the hunks of a generation response where the texts are patched
MaxPatchHunks == 3
\* the texts of a batch handed to openai_with_expo_backoff
MaxBatch == 2

(***************************************************************************)
(* Program constants.                                                      *)
(***************************************************************************)
\* for _ in range(3)
RetryPasses == 3
\* if match_.score > 50
ScoreThreshold == 50
\* IMPORT_LINES = 10
IMPORT_LINES == 10
\* FUSE_OFFSET = 5
FUSE_OFFSET == 5
\* messages[:-2]
TrimCount == 2
\* @backoff.on_exception(backoff.expo, requests.exceptions.Timeout, max_tries=5)
max_tries == 5

Min(a, b) == IF a <= b THEN a ELSE b
Max(a, b) == IF a >= b THEN a ELSE b

(***************************************************************************)
(* Texts.  Every string is, in exactly one way, a body that does not end   *)
(* in a newline followed by nl newline characters.  A text is kept in that *)
(* form: body is the number of lines of the body (len(body.split("\n")),   *)
(* at least 1: "".split("\n") is [""]), nl the trailing newlines.          *)
(***************************************************************************)
Texts == [body : {ShortFile, LongFile}, nl : {0, MaxNl}]

\* len(s) - len(s.rstrip("\n"))
TrailingNewlines(t) == t.nl

\* s.rstrip("\n")
Rstrip(t) == [t EXCEPT !.nl = 0]

\* s + "\n" * k
AppendNewlines(t, k) == [t EXCEPT !.nl = @ + k]

\* len(s.split("\n"))
NumLines(t) == t.body + t.nl

\* result.rstrip("\n") + "\n" * ending_newlines, without the rstrip
RestoreNewlinesNoStrip(result, file_contents) ==
    AppendNewlines(result, TrailingNewlines(file_contents))

\* ending_newlines = len(file_contents) - len(file_contents.rstrip("\n"))
\* result = result.rstrip("\n") + "\n" * ending_newlines
RestoreNewlines(result, file_contents) ==
    AppendNewlines(Rstrip(result), TrailingNewlines(file_contents))

(***************************************************************************)
(* Matches (sweepai.utils.search_and_replace.Match): start inclusive, end  *)
(* exclusive, score.                                                       *)
(***************************************************************************)
Match(s, e, sc) == [start |-> s, end |-> e, score |-> sc]

\* key=lambda x: x.start + x.end * 0.00001 (exact on line numbers below 10^5)
SortKey(m) == m.start * 100000 + m.end

\* the element of a one-element set (a LET whose value is computed once)
The(S) == CHOOSE x \in S : TRUE

\* list.sort is stable: the place of s[i] in the sorted list is one more than
\* the number of elements with a smaller key, or the same key and an
\* earlier place
SortRank(s, i) ==
    1 + Cardinality({j \in 1..Len(s) :
            \/ SortKey(s[j]) < SortKey(s[i])
            \/ SortKey(s[j]) = SortKey(s[i]) /\ j < i})

\* best_matches.sort(key=...)
SortMatches(s) ==
    The({[k \in 1..Len(s) |-> s[CHOOSE i \in 1..Len(s) : ranks[i] = k]] :
            ranks \in {[i \in 1..Len(s) |-> SortRank(s, i)]}})


\* a fusion that keeps the lines the two matches share
fuse_matches_shared(a, b) ==
    Match(Max(a.start, b.start), Min(a.end, b.end), Min(a.score, b.score))

\* a fusion that ends where the later match ends
fuse_matches_next_end(a, b) ==
    Match(Min(a.start, b.start), b.end, Min(a.score, b.score))

\* def fuse_matches(a, b)
fuse_matches(a, b) ==
    Match(Min(a.start, b.start), Max(a.end, b.end), Min(a.score, b.score))

Abs(x) == IF x < 0 THEN -x ELSE x

\* the condition with a proximity of one line more
ShouldFuseWider(cur, nxt) ==
    \/ cur.end > nxt.start
    \/ Abs(cur.end - nxt.start) <= FUSE_OFFSET + 1

\* the condition without its proximity clause
ShouldFuseOverlapOnly(cur, nxt) == cur.end > nxt.start

\* the condition under which the running match swallows the next one
ShouldFuse(cur, nxt) ==
    \/ cur.end > nxt.start
    \/ Abs(cur.end - nxt.start) <= FUSE_OFFSET

\* a turn that closes a window and yet keeps it running
FuseStepNoReset(loop, next_match_) ==
    IF ShouldFuse(loop.current_match, next_match_)
    THEN [current_match |-> fuse_matches(loop.current_match, next_match_),
          deduped_matches |-> loop.deduped_matches]
    ELSE [current_match |-> fuse_matches(loop.current_match, next_match_),
          deduped_matches |-> Append(loop.deduped_matches, loop.current_match)]

\* one turn of the loop of lines 455-463 on current_match and deduped_matches
FuseStep(loop, next_match_) ==
    IF ShouldFuse(loop.current_match, next_match_)
    THEN [current_match |-> fuse_matches(loop.current_match, next_match_),
          deduped_matches |-> loop.deduped_matches]
    ELSE [current_match |-> next_match_,
          deduped_matches |-> Append(loop.deduped_matches, loop.current_match)]

\* current_match and deduped_matches after the first k matches of the list
RECURSIVE FuseScan(_, _)
FuseScan(sorted, k) ==
    IF k <= 1 THEN [current_match |-> sorted[1], deduped_matches |-> <<>>]
    ELSE The({FuseStep(loop, sorted[k]) : loop \in {FuseScan(sorted, k - 1)}})

\* best_matches.sort(...); current_match = best_matches[0]; fuse & dedup;
\* deduped_matches.append(current_match)
FuseAndDedup(best_matches) ==
    The({Append(loop.deduped_matches, loop.current_match) :
            loop \in {FuseScan(sorted, Len(sorted)) :
                        sorted \in {SortMatches(best_matches)}}})

(***************************************************************************)
(* The syntax tree (sweepai.utils.code_tree.CodeTree) is not part of the   *)
(* sources at hand.  A tree is one of: "identity" (every line is its own   *)
(* block), "block" (lines are grouped in blocks of SpanLen lines), "throws"*)
(* (get_lines_surrounding raises), "unparsable" (CodeTree.from_code        *)
(* raises).  get_lines_surrounding gives the block (lo, hi), both          *)
(* inclusive, of line i in a file of n lines, or raises (ok is FALSE).     *)
(***************************************************************************)
TreeKinds == {"identity", "block", "throws", "unparsable"}

\* and "whole": the file is one block (one class or function body)
WideTreeKinds == TreeKinds \cup {"whole"}

Block(lo, hi) == [ok |-> TRUE, lo |-> lo, hi |-> hi]
Raises == [ok |-> FALSE, lo |-> 0, hi |-> 0]

get_lines_surrounding(tree, i, n) ==
    CASE tree = "identity" -> Block(i, i)
      [] tree = "block" ->
            Block((i \div SpanLen) * SpanLen,
                  Max(i, Min((i \div SpanLen) * SpanLen + SpanLen - 1, n - 1)))
      [] tree = "whole" -> Block(0, Max(i, n - 1))
      [] OTHER -> Raises

(***************************************************************************)
(* What a fetch response holds.  find_best_match, split_ellipses and       *)
(* find_function_calls are pure functions of the query and the file that   *)
(* are not part of the sources at hand: a quotation is described by the    *)
(* number of its elision markers and by the matches the locator returns    *)
(* for it (one for the whole quotation, or one per section); an extraction *)
(* term by the lines that contain it and by its call sites.                *)
(***************************************************************************)
CandidateStarts(n) ==
    {s \in {0, IMPORT_LINES + FUSE_OFFSET, IMPORT_LINES + FUSE_OFFSET + 1} :
        s + SpanLen <= n}

Located(n) ==
    {Match(s, s + SpanLen, ScoreThreshold + 1) : s \in CandidateStarts(n)}
    \cup {Match(0, SpanLen, ScoreThreshold)}

QueryKinds(n) ==
    {[dots |-> 0, answers |-> <<m>>] : m \in Located(n)}
    \cup {[dots |-> 3,
           answers |-> <<Match(0, SpanLen, 100),
                         Match(n - SpanLen, n, ScoreThreshold)>>]}

\* and a quotation with two elision markers: located as a whole at
\* answers[1]; its second section, were it asked for, would be found too
WideQueryKinds(n) ==
    QueryKinds(n)
    \cup {[dots |-> 2,
           answers |-> <<Match(0, SpanLen, ScoreThreshold + 1),
                         Match(n - SpanLen, n, 100)>>]}

TermKinds(n) ==
    {[lines |-> {n - 1}, calls |-> {}],
     [lines |-> {n - 1}, calls |-> {<<n - SpanLen, n - 1>>}]}

\* the elements of the finite set S, listed in one fixed order
RECURSIVE SetToSeq(_)
SetToSeq(S) ==
    IF S = {} THEN <<>>
    ELSE LET x == CHOOSE y \in S : TRUE
         IN <<x>> \o SetToSeq(S \ {x})

\* the lists of at most k distinct elements of S, one per choice of elements
ListsUpTo(S, k) == {SetToSeq(T) : T \in {U \in SUBSET S : Cardinality(U) <= k}}

\* the sequences of at most k elements of S
RECURSIVE SeqsUpTo(_, _)
SeqsUpTo(S, k) ==
    IF k = 0 THEN {<<>>}
    ELSE LET shorter == SeqsUpTo(S, k - 1)
         IN shorter \cup
            {Append(q, x) : q \in {r \in shorter : Len(r) = k - 1},
                            x \in S}

(***************************************************************************)
(* The chat logs.  ChatGPT (sweepai.core.chat) is not part of the sources  *)
(* at hand: a chat call appends the request and the response to the log    *)
(* of the bot.                                                             *)
(***************************************************************************)
\* ChatGPT.from_system_message_string(...); messages.extend(additional_messages)
InitialLog == <<"system">> \o [i \in 1..NumAdditional |-> "additional"]

Chat(log) == log \o <<"user", "assistant">>

\* messages[:-2]
TrimLast(log) ==
    IF Len(log) <= TrimCount THEN <<>> ELSE SubSeq(log, 1, Len(log) - TrimCount)

\* self.update_snippets_bot.messages[0].content = update_snippets_system_prompt_python
SetPythonPrompt(log) ==
    IF Len(log) = 0 THEN log ELSE [log EXCEPT ![1] = "system_python"]

(***************************************************************************)
(* The retry loop of try_update_file, lines 250-313: what follows a round  *)
(* that ran in pass `pass` of the loop (0: the round before the loop) in   *)
(* branch `branch`, given its leftover markers L and its verdict V.  A     *)
(* pass in which neither condition holds changes nothing, so the passes    *)
(* that follow it change nothing either and the loop ends in the return.   *)
(***************************************************************************)
Step(kind, pass) == [kind |-> kind, pass |-> pass]

\* the top of a pass, `done` passes being over
FromTopExtraPass(done, L, V) ==
    IF done >= RetryPasses + 1 THEN Step("return", done)
    ELSE IF L THEN Step("leftover", done + 1)
    ELSE IF V THEN Step("validation", done + 1)
    ELSE Step("return", done)

FromTopUnbounded(done, L, V) ==
    IF L THEN Step("leftover", done + 1)
    ELSE IF V THEN Step("validation", done + 1)
    ELSE Step("return", done)

FromTop(done, L, V) ==
    IF done >= RetryPasses THEN Step("return", done)
    ELSE IF L THEN Step("leftover", done + 1)
    ELSE IF V THEN Step("validation", done + 1)
    ELSE Step("return", done)

\* after the leftover branch of a pass comes the validation branch of that pass
NextStepElif(pass, branch, L, V) == FromTop(pass, L, V)

NextStep(pass, branch, L, V) ==
    IF branch = "leftover" /\ V THEN Step("validation", pass)
    ELSE FromTop(pass, L, V)

(***************************************************************************)
(* update_file, lines 383-477: the candidate pool and the edit windows.    *)
(***************************************************************************)
\* if match_.score > 50: best_matches.append(match_)
Accepted(m) == m.score > ScoreThreshold

\* quotations split at more than one "..."
RECURSIVE QuotationMatchesSplitAtTwo(_)
QuotationMatchesSplitAtTwo(queries) ==
    IF queries = <<>> THEN <<>>
    ELSE LET q == Head(queries)
             located == IF q.dots > 1 THEN q.answers ELSE <<q.answers[1]>>
         IN SelectSeq(located, Accepted) \o QuotationMatchesSplitAtTwo(Tail(queries))

\* for query in snippet_queries: split at more than two "...", locate, accept
RECURSIVE QuotationMatches(_)
QuotationMatches(queries) ==
    IF queries = <<>> THEN <<>>
    ELSE LET q == Head(queries)
             located == IF q.dots > 2 THEN q.answers ELSE <<q.answers[1]>>
         IN SelectSeq(located, Accepted) \o QuotationMatches(Tail(queries))

\* try: code_tree.get_lines_surrounding(i) / i, i; except: i, i
KeywordSpan(tree, i, n) ==
    IF tree = "none" THEN Block(i, i)
    ELSE LET r == get_lines_surrounding(tree, i, n)
         IN IF r.ok THEN r ELSE Block(i, i)

\* for i, line in enumerate(file_contents.split("\n")):
\*     for keyword in extraction_terms: if keyword in line: ...
\* the pairs (line, place of the keyword) for which the test succeeds
KeywordHits(terms, n) ==
    {h \in (0..(n - 1)) \X (1..Len(terms)) : h[1] \in terms[h[2]].lines}

\* the place of a pair in the order the two loops visit them: by line, then
\* by keyword
HitRank(hits, h) ==
    1 + Cardinality({g \in hits :
            g[1] < h[1] \/ (g[1] = h[1] /\ g[2] < h[2])})

\* the matches appended by the two loops, in the order they are appended
KeywordMatches(terms, tree, n) ==
    The({[k \in 1..Cardinality(hits) |->
            The({Match(r.lo, r.hi + 1, 100) :
                    r \in {KeywordSpan(tree, h[1], n) :
                            h \in {g \in hits : HitRank(hits, g) = k}}})] :
         hits \in {KeywordHits(terms, n)}})

\* call-site matches that end at the last line of the call, not after it
RECURSIVE CallSitesEndInclusive(_)
CallSitesEndInclusive(calls) ==
    IF calls = <<>> THEN <<>>
    ELSE <<Match(Head(calls)[1], Head(calls)[2], 100)>>
            \o CallSitesEndInclusive(Tail(calls))

\* for start, end in find_function_calls(keyword, file_contents)
RECURSIVE CallSites(_)
CallSites(calls) ==
    IF calls = <<>> THEN <<>>
    ELSE <<Match(Head(calls)[1], Head(calls)[2] + 1, 100)>> \o CallSites(Tail(calls))

RECURSIVE CallMatches(_)
CallMatches(terms) ==
    IF terms = <<>> THEN <<>>
    ELSE CallSites(SetToSeq(Head(terms).calls)) \o CallMatches(Tail(terms))

\* Match(start=0, end=min(IMPORT_LINES, len(file_contents.split("\n"))), score=100)
HeaderMatch(n) == Match(0, Min(IMPORT_LINES, n), 100)

\* best_matches as it stands at line 436
BestMatches(queries, terms, tree, n) ==
    QuotationMatches(queries) \o KeywordMatches(terms, tree, n)
        \o CallMatches(terms) \o <<HeaderMatch(n)>>

\* if is_python_file: re-snap the start and the end of every window; the
\* call is not guarded, a failure of the tree leaves update_file
ResnapOne(m, tree, n, rest) ==
    LET a == get_lines_surrounding(tree, m.start, n)
        b == get_lines_surrounding(tree, m.end, n)
    IN IF a.ok /\ b.ok /\ rest.ok
       THEN [ok |-> TRUE,
             windows |-> <<Match(a.lo, b.hi + 1, m.score)>> \o rest.windows]
       ELSE [ok |-> FALSE, windows |-> <<>>]

RECURSIVE Resnap(_, _, _)
Resnap(windows, tree, n) ==
    IF windows = <<>> THEN [ok |-> TRUE, windows |-> <<>>]
    ELSE The({ResnapOne(Head(windows), tree, n, rest) :
                rest \in {Resnap(Tail(windows), tree, n)}})

\* lines 441-477
EditWindows(best_matches, tree, n) ==
    The({IF tree = "none" THEN [ok |-> TRUE, windows |-> deduped]
         ELSE Resnap(deduped, tree, n) :
            deduped \in {FuseAndDedup(best_matches)}})

(***************************************************************************)
(* update_file, lines 563-588: the hunks of a generation response.  A hunk *)
(* is its window index and the edit it carries; the text of a patched      *)
(* window is described by the edits applied to it, in order                *)
(* (sliding_window_replacement is not part of the sources at hand).        *)
(***************************************************************************)
\* the hunks over k retained windows: every index in range and one beyond
HunkKinds(k) == [index : 0..k, edit : {"e"}]

\* updated_snippets after the hunks, applied in the order of the response:
\* for every retained window (index i at place i + 1) the edits it received,
\* none when the index is not in the dict; ok is FALSE when
\* selected_snippets[index] is out of range (IndexError)
RECURSIVE ApplyHunksClamped(_, _)
ApplyHunksClamped(hunks, updated) ==
    IF hunks = <<>> THEN [ok |-> TRUE, updated |-> updated]
    ELSE LET h == Head(hunks)
             place == Min(h.index + 1, Len(updated))
         IN IF updated = <<>> THEN [ok |-> FALSE, updated |-> updated]
            ELSE ApplyHunksClamped(Tail(hunks),
                            [updated EXCEPT ![place] = Append(@, h.edit)])

RECURSIVE ApplyHunks(_, _)
ApplyHunks(hunks, updated) ==
    IF hunks = <<>> THEN [ok |-> TRUE, updated |-> updated]
    ELSE LET h == Head(hunks)
         IN IF h.index >= Len(updated) THEN [ok |-> FALSE, updated |-> updated]
            ELSE ApplyHunks(Tail(hunks),
                            [updated EXCEPT ![h.index + 1] = Append(@, h.edit)])

(***************************************************************************)
(* The state of one call of try_update_file.                               *)
(***************************************************************************)
VARIABLES
    pc,                 \* the stage about to run, or "done" / "raised"
    DEBUG,              \* sweepai.config.server.DEBUG
    file_path,          \* the argument file_path
    file_contents,      \* the argument file_contents of try_update_file
    file_change_request,\* the argument file_change_request (mutated in place)
    round_contents,     \* file_contents as passed to the round's two calls
    round_request,      \* file_change_request as passed to the round's two calls
    new_file,           \* try_update_file's new_file
    leftover_comments,  \* whether leftover_comments is non-empty
    additional_changes_required, \* change_validation.additional_changes_required
    pass,               \* the pass of the loop the round belongs to (0: none)
    branch,             \* "initial", "leftover" or "validation"
    rounds,             \* executions of update_file begun so far
    snippet_queries,    \* get_snippets_to_modify's snippet_queries
    extraction_terms,   \* get_snippets_to_modify's extraction_terms
    selected_snippets,  \* update_file's selected_snippets (the windows)
    indices_to_keep,    \* update_file's indices_to_keep
    hunks,              \* the hunks parsed from the generation response
    updated_snippets,   \* update_file's updated_snippets
    fetch_msgs,         \* self.fetch_snippets_bot.messages
    prune_msgs,         \* self.prune_modify_snippets_bot.messages
    plan_msgs,          \* self.plan_bot.messages
    update_msgs,        \* self.update_snippets_bot.messages
    error,              \* the message of the exception that left the call
    returned,           \* the text the call returned
    calls,              \* the collaborators the round has called, in order
    code_tree,          \* update_file's code_tree: the kind of syntax tree
    best_matches,       \* update_file's best_matches (the candidate pool)
    deduped_matches,    \* update_file's deduped_matches
    new_code,           \* update_file's new_code (the text for the detector)
    args,               \* vector_db: the batch openai_with_expo_backoff is called with
    batch,              \* vector_db: its local batch, the texts still to embed
    embeddings,         \* vector_db: its local embeddings, which it returns
    new_embeddings,     \* vector_db: its local new_embeddings, or "unbound"
    redis_store,        \* vector_db: the store behind redis_client: whether it
                        \* can be reached and what it holds for every cache key
    tries,              \* vector_db: the calls the backoff decorator has made
    service_calls       \* vector_db: the calls of openai_call_embedding so far

vars == <<pc, DEBUG, file_path, file_contents, file_change_request,
          round_contents, round_request, new_file, leftover_comments,
          additional_changes_required, pass, branch, rounds, snippet_queries,
          extraction_terms, selected_snippets, indices_to_keep, hunks,
          updated_snippets, fetch_msgs, prune_msgs, plan_msgs,
          update_msgs, error, returned, calls, code_tree, best_matches,
          deduped_matches, new_code, args, batch, embeddings,
          new_embeddings, redis_store, tries, service_calls>>

\* the intermediate values of update_file between line 383 and line 477,
\* and the text of line 618: a round computes the windows in one step
\* (Locate), takes any answer of the detector (Validate) and leaves these
\* alone; LocateSpec and PatchSpec below compute them stage by stage
locate_state == <<code_tree, best_matches, deduped_matches, new_code>>

\* the state of a call of sweepai.core.vector_db.openai_with_expo_backoff,
\* which EmbedSpec below follows; try_update_file makes no such call
embed_state == <<args, batch, embeddings, new_embeddings, redis_store, tries,
                 service_calls>>

\* no call of openai_with_expo_backoff is under way
EmbedIdle ==
    /\ args = <<>>
    /\ batch = <<>>
    /\ embeddings = <<>>
    /\ new_embeddings = "unbound"
    /\ redis_store = <<>>
    /\ tries = 0
    /\ service_calls = 0

\* no text (None)
NoText == [body |-> 0, nl |-> 0]

is_python_file == file_path = "a.py"

Request(instructions, new_content) ==
    [instructions |-> instructions, new_content |-> new_content]

Init ==
    /\ pc = "fetch"
    /\ DEBUG \in BOOLEAN
    /\ file_path \in {"a.py", "a.txt"}
    /\ file_contents \in Texts
    /\ file_change_request = Request("request", NoText)
    /\ round_contents = file_contents
    /\ round_request = file_change_request
    /\ new_file = NoText
    /\ leftover_comments = FALSE
    /\ additional_changes_required = FALSE
    /\ pass = 0
    /\ branch = "initial"
    /\ rounds = 0
    /\ snippet_queries = <<>>
    /\ extraction_terms = <<>>
    /\ selected_snippets = <<>>
    /\ indices_to_keep = {}
    /\ hunks = <<>>
    /\ updated_snippets = <<>>
    /\ fetch_msgs = InitialLog
    /\ prune_msgs = InitialLog
    /\ plan_msgs = InitialLog
    /\ update_msgs = InitialLog
    /\ error = "none"
    /\ returned = NoText
    /\ calls = <<>>
    /\ code_tree = "none"
    /\ best_matches = <<>>
    /\ deduped_matches = <<>>
    /\ new_code = <<>>
    /\ EmbedIdle

\* an exception leaves update_file or get_snippets_to_modify, and with it
\* try_update_file, which catches nothing
RaiseKeepsNewFile(message) ==
    /\ pc' = "raised"
    /\ error' = message
    /\ returned' = new_file

Raise(message) ==
    /\ pc' = "raised"
    /\ error' = message
    /\ returned' = returned

(***************************************************************************)
(* get_snippets_to_modify, lines 315-369, and, in a retry round, the trim  *)
(* of the generator's log that follows it (lines 271-273, 301-303).        *)
(***************************************************************************)
\* if len(snippet_queries) == 0: raise UnneededEditError(...)
NoSnippetsFoundIgnored(queries) == FALSE
NoSnippetsFound(queries) == Len(queries) = 0

Fetch ==
    /\ pc = "fetch"
    /\ UNCHANGED <<locate_state, embed_state>>
    /\ rounds < RoundCap
    /\ \E queries \in ListsUpTo(QueryKinds(NumLines(round_contents)), MaxQueries),
          terms \in ListsUpTo(TermKinds(NumLines(round_contents)), MaxTerms) :
        /\ fetch_msgs' = Chat(fetch_msgs)
        /\ calls' = <<"fetch">>
        /\ snippet_queries' = queries
        /\ extraction_terms' = terms
        /\ IF NoSnippetsFound(queries)
           THEN /\ Raise("No snippets found in file")
                /\ UNCHANGED <<update_msgs, rounds>>
           ELSE /\ update_msgs' = IF branch = "initial" THEN update_msgs
                                  ELSE TrimLast(update_msgs)
                /\ rounds' = rounds + 1
                /\ pc' = "locate"
                /\ UNCHANGED <<error, returned>>
    /\ UNCHANGED <<hunks, DEBUG, file_path, file_contents, file_change_request,
                   round_contents, round_request, new_file, leftover_comments,
                   additional_changes_required, pass, branch,
                   selected_snippets, indices_to_keep, updated_snippets,
                   prune_msgs, plan_msgs>>

(***************************************************************************)
(* update_file, lines 381-489: the pool, the fusion, the windows.  The     *)
(* quotations and the terms are not read again after this stage.           *)
(***************************************************************************)
\* if len(best_matches) == 0: raise UnneededEditError(...)
NoMatchesFound(matches) == Len(matches) = 0

Locate ==
    /\ pc = "locate"
    /\ UNCHANGED <<locate_state, embed_state>>
    /\ \E tree \in (IF is_python_file THEN TreeKinds ELSE {"none"}) :
       \E matches \in {BestMatches(snippet_queries, extraction_terms, tree,
                                  NumLines(round_contents))} :
       \E w \in {EditWindows(matches, tree, NumLines(round_contents))} :
           IF tree = "unparsable"
           THEN Raise("CodeTree.from_code") /\ UNCHANGED selected_snippets
           ELSE IF NoMatchesFound(matches)
           THEN Raise("No matches found in file") /\ UNCHANGED selected_snippets
           ELSE IF ~w.ok
           THEN Raise("get_lines_surrounding") /\ UNCHANGED selected_snippets
           ELSE /\ selected_snippets' = w.windows
                /\ pc' = "select"
                /\ UNCHANGED <<error, returned>>
    /\ snippet_queries' = <<>>
    /\ extraction_terms' = <<>>
    /\ UNCHANGED <<hunks, DEBUG, file_path, file_contents, file_change_request,
                   round_contents, round_request, new_file, leftover_comments,
                   additional_changes_required, pass, branch, rounds,
                   indices_to_keep, updated_snippets, fetch_msgs,
                   prune_msgs, plan_msgs, update_msgs, calls>>

(***************************************************************************)
(* update_file, lines 491-516: the selection.                              *)
(***************************************************************************)
\* if len(indices_to_keep) == 0: raise UnneededEditError(...)
NoSnippetsSelected(keep) == keep = {}

\* for idx, snippet in enumerate(selected_snippets): if idx in indices_to_keep
RECURSIVE Prune(_, _, _)
Prune(snippets, keep, idx) ==
    IF snippets = <<>> THEN <<>>
    ELSE (IF idx \in keep THEN <<Head(snippets)>> ELSE <<>>)
            \o Prune(Tail(snippets), keep, idx + 1)

\* if len(selected_snippets) > 1: ... prune_modify_snippets(...)
SelectorAskedAlways(k) == TRUE
SelectorAsked(k) == k > 1

Select ==
    /\ pc = "select"
    /\ UNCHANGED <<locate_state, embed_state>>
    /\ LET k == Len(selected_snippets)
       IN \E keep \in (IF SelectorAsked(k) THEN SUBSET (0..k) ELSE {{0}}) :
            /\ indices_to_keep' = keep
            /\ prune_msgs' = IF SelectorAsked(k) THEN Chat(prune_msgs)
                              ELSE prune_msgs
            /\ calls' = IF SelectorAsked(k) THEN Append(calls, "select")
                        ELSE calls
            /\ IF NoSnippetsSelected(keep)
               THEN Raise("No snippets selected") /\ UNCHANGED selected_snippets
               ELSE /\ selected_snippets' = Prune(selected_snippets, keep, 0)
                    /\ pc' = "plan"
                    /\ UNCHANGED <<error, returned>>
    /\ UNCHANGED <<hunks, DEBUG, file_path, file_contents, file_change_request,
                   round_contents, round_request, new_file, leftover_comments,
                   additional_changes_required, pass, branch, rounds,
                   snippet_queries, extraction_terms, updated_snippets, fetch_msgs, plan_msgs, update_msgs>>

(***************************************************************************)
(* update_file, lines 518-539: the planner.  indices_to_keep is not read   *)
(* again after the selection.                                              *)
(***************************************************************************)
Plan ==
    /\ pc = "plan"
    /\ UNCHANGED <<locate_state, embed_state>>
    /\ update_msgs' = IF is_python_file THEN SetPythonPrompt(update_msgs)
                      ELSE update_msgs
    /\ plan_msgs' = Chat(plan_msgs)
    /\ calls' = Append(calls, "plan")
    /\ pc' = "generate"
    /\ indices_to_keep' = {}
    /\ UNCHANGED <<hunks, DEBUG, file_path, file_contents, file_change_request,
                   round_contents, round_request, new_file, leftover_comments,
                   additional_changes_required, pass, branch, rounds,
                   snippet_queries, extraction_terms, selected_snippets,
                   updated_snippets, fetch_msgs, prune_msgs, error,
                   returned>>

(***************************************************************************)
(* update_file, lines 541-588: the hunk generator and the hunks.  The      *)
(* windows are read no further by the model once the hunks are applied:    *)
(* what the validator and the detector make of them is their answer.       *)
(***************************************************************************)
\* if len(list(re.finditer(updated_pattern, ...))) == 0: raise ...
NoHunksParsedIgnored(parsed) == FALSE
NoHunksParsed(parsed) == Len(parsed) = 0

Generate ==
    /\ pc = "generate"
    /\ UNCHANGED <<locate_state, embed_state>>
    /\ \E parsed \in SeqsUpTo(HunkKinds(Len(selected_snippets)), MaxHunks) :
       \E applied \in {ApplyHunks(parsed, [i \in 1..Len(selected_snippets) |-> <<>>])} :
           /\ hunks' = parsed
           /\ IF NoHunksParsed(parsed)
              THEN /\ Raise("No snippets edited")
                   /\ UNCHANGED <<selected_snippets, updated_snippets>>
              ELSE IF ~applied.ok
              THEN /\ Raise("IndexError")
                   /\ UNCHANGED <<selected_snippets, updated_snippets>>
              ELSE /\ updated_snippets' = applied.updated
                   /\ selected_snippets' = <<>>
                   /\ pc' = "validate"
                   /\ UNCHANGED <<error, returned>>
    /\ update_msgs' = Chat(update_msgs)
    /\ calls' = Append(calls, "generate")
    /\ UNCHANGED <<DEBUG, file_path, file_contents, file_change_request,
                   round_contents, round_request, new_file, leftover_comments,
                   additional_changes_required, pass, branch, rounds,
                   snippet_queries, extraction_terms, indices_to_keep,
                   fetch_msgs, prune_msgs, plan_msgs>>

(***************************************************************************)
(* update_file, lines 590-631: the validator, the text of the round, the   *)
(* leftover detector and the return; then try_update_file, lines 250-313:  *)
(* the loop up to the next call of get_snippets_to_modify, or the return   *)
(* of new_file.                                                            *)
(*                                                                         *)
(* ChangeValidator and ChangeValidation (sweepai.agents.validate_code) are *)
(* not part of the sources at hand: update_file builds the verdict object  *)
(* (lines 598-603, additional_changes_required_raw="no"), hands it to      *)
(* apply_validated_changes, which answers the recombined text, and returns *)
(* it to the loop, which reads its additional_changes_required.  The text  *)
(* is any text and the verdict the loop reads is either answer.            *)
(***************************************************************************)
ValidatedChanges == Texts \X BOOLEAN

\* extract_leftover_comments(...) if not DEBUG else []
DetectorAnswers == IF DEBUG THEN {FALSE} ELSE BOOLEAN

\* file_contents=new_file (lines 267, 276) / file_contents=file_contents
\* (lines 297, 306)
RetryContents(kind, produced) ==
    IF kind = "leftover" THEN produced ELSE file_contents

\* new_file_change_request (lines 253-256) / file_change_request (284-285)
RetryRequest(kind, produced) ==
    IF kind = "leftover" THEN Request("leftover", produced)
    ELSE Request("followup", produced)

Validate ==
    /\ pc = "validate"
    /\ UNCHANGED <<locate_state, embed_state>>
    /\ \E answer \in ValidatedChanges, leftover \in DetectorAnswers :
       \E produced \in {RestoreNewlines(answer[1], round_contents)} :
       \E step \in {NextStep(pass, branch, leftover /\ ~DEBUG, answer[2])} :
           /\ additional_changes_required' = answer[2]
           /\ leftover_comments' = leftover
           /\ calls' = IF DEBUG THEN Append(calls, "validator")
                       ELSE calls \o <<"validator", "detector">>
           /\ new_file' = produced
           /\ IF step.kind = "return"
              THEN /\ pc' = "done"
                   /\ returned' = produced
                   /\ UNCHANGED <<pass, branch, round_contents, round_request,
                                  file_change_request, fetch_msgs, prune_msgs>>
              ELSE /\ pc' = "fetch"
                   /\ returned' = returned
                   /\ pass' = step.pass
                   /\ branch' = step.kind
                   /\ round_contents' = RetryContents(step.kind, produced)
                   /\ round_request' = RetryRequest(step.kind, produced)
                   /\ file_change_request' =
                         IF step.kind = "validation"
                         THEN RetryRequest(step.kind, produced)
                         ELSE file_change_request
                   /\ fetch_msgs' = TrimLast(fetch_msgs)
                   /\ prune_msgs' = TrimLast(prune_msgs)
    /\ selected_snippets' = <<>>
    /\ hunks' = <<>>
    /\ updated_snippets' = <<>>
    /\ UNCHANGED <<DEBUG, file_path, file_contents, rounds, snippet_queries,
                   extraction_terms, indices_to_keep, plan_msgs, update_msgs,
                   error>>

Next ==
    \/ Fetch
    \/ Locate
    \/ Select
    \/ Plan
    \/ Generate
    \/ Validate

Spec == Init /\ [][Next]_vars

\* every collaborator call returns: a stage that can run does run
FairSpec == Spec /\ WF_vars(Next)

(***************************************************************************)
(* The contract of try_update_file.                                        *)
(***************************************************************************)
Ended == pc \in {"done", "raised"}

\* the stages of a round
InRound == pc \in {"fetch", "locate", "select", "plan", "generate", "validate"}

\* a round other than the first
InRetryRound == InRound /\ branch # "initial"

C2_Terminates == <>Ended

\* a call that returned after the last pass with leftover markers outstanding
C2_Witness ==
    /\ pc = "done"
    /\ pass = RetryPasses
    /\ leftover_comments
    /\ ~additional_changes_required

\* a further round follows the round that a step of Validate finishes
StartsRound == pc' = "fetch"

\* the loop still has a branch to run after the round that is finishing
RoundsRemain == pass < RetryPasses \/ branch = "leftover"

C4_RetryOnPreviousText == InRetryRound => round_contents = new_file

\* C5: at the start of every retry round the log of each bot is the log it
\* had before the first round (for the generator, whose log is trimmed after
\* the fetch, once the fetch is over)
C5_RetryStartsWithInitialLogs ==
    /\ (InRetryRound /\ pc = "fetch") =>
          /\ fetch_msgs = InitialLog
          /\ prune_msgs = InitialLog
          /\ plan_msgs = InitialLog
    /\ (InRetryRound /\ pc = "locate") => update_msgs = InitialLog

\* C6: a fetch response without snippet_to_modify blocks raises
\* UnneededEditError("No snippets found in file"); nothing is located,
\* selected, planned or patched and no text is produced or changed
C6_NoSnippetsAborts ==
    [][(pc = "fetch" /\ snippet_queries' = <<>>) =>
        /\ pc' = "raised"
        /\ error' = "No snippets found in file"
        /\ calls' = <<"fetch">>
        /\ rounds' = rounds
        /\ new_file' = new_file
        /\ returned' = NoText
        /\ selected_snippets' = <<>> /\ updated_snippets' = <<>>]_vars

\* a retry round whose fetch response held no snippet
C6_Witness ==
    /\ pc = "raised"
    /\ error = "No snippets found in file"
    /\ snippet_queries = <<>>
    /\ branch = "leftover"
    /\ calls = <<"fetch">>

\* the pool holds no match from a quotation, a keyword line or a call site
NoCandidateMatches ==
    /\ QuotationMatches(snippet_queries) = <<>>
    /\ \A i \in 1..Len(extraction_terms) :
          /\ \A l \in extraction_terms[i].lines : l >= NumLines(round_contents)
          /\ extraction_terms[i].calls = {}

\* C7: with no candidate match from quotations, keyword lines and call
\* sites, update_file raises UnneededEditError("No matches found in file")
\* and calls neither the selector, the planner nor the generator (a failure
\* of the syntax tree, which raises on its own, aside)
C7_NoMatchesAborts ==
    [][(pc = "locate" /\ NoCandidateMatches
            /\ error' \notin {"CodeTree.from_code", "get_lines_surrounding"}) =>
        /\ pc' = "raised"
        /\ error' = "No matches found in file"]_vars

\* the windows that indices_to_keep retains, by position
Retained(keep, windows) == keep \cap (0..(Len(windows) - 1))

\* C8: when no window survives the selection, whatever the selector
\* answered, update_file raises UnneededEditError("No snippets selected") and
\* the planner and the generator are not called
C8_NothingRetainedAborts ==
    [][(pc = "select" /\ Retained(indices_to_keep', selected_snippets) = {}) =>
        /\ pc' = "raised"
        /\ error' = "No snippets selected"]_vars

\* C9: a generation response without a hunk raises
\* UnneededEditError("No snippets edited") before a window is changed and
\* before the validator or the leftover detector is called
C9_NoHunksAborts ==
    [][(pc = "generate" /\ hunks' = <<>>) =>
        /\ pc' = "raised"
        /\ error' = "No snippets edited"
        /\ updated_snippets' = updated_snippets
        /\ selected_snippets' = selected_snippets
        /\ calls' = Append(calls, "generate")
        /\ new_file' = new_file
        /\ returned' = NoText]_vars

\* a round that the generator's answer without hunks ended
C9_Witness ==
    /\ pc = "raised"
    /\ error = "No snippets edited"
    /\ hunks = <<>>
    /\ Len(selected_snippets) > 1
    /\ calls[Len(calls)] = "generate"

\* C10: the text of every round, and the text returned, ends in as many
\* newline characters as the input file
C10_TrailingNewlinesKept ==
    /\ new_file # NoText =>
          TrailingNewlines(new_file) = TrailingNewlines(file_contents)
    /\ pc = "done" =>
          TrailingNewlines(returned) = TrailingNewlines(file_contents)

\* a text returned after a retry, with a body other than the input's, that
\* ends in newlines
C10_Witness ==
    /\ pc = "done"
    /\ rounds > 1
    /\ returned.body # file_contents.body
    /\ TrailingNewlines(returned) = MaxNl

(***************************************************************************)
(* update_file, lines 381-477, stage by stage: the pool, the sort-and-fuse *)
(* pass and the re-snap as separate steps on best_matches and              *)
(* deduped_matches, for any fetch response of at most MaxPool quotations   *)
(* and MaxTerms extraction terms.  FuseAgain runs the sort-and-fuse pass   *)
(* on the windows the pass produced.                                       *)
(***************************************************************************)
\* what the stages of LocateSpec leave alone
locate_frame == <<DEBUG, file_path, file_contents, file_change_request,
                  round_contents, round_request, new_file, leftover_comments,
                  additional_changes_required, pass, branch, rounds,
                  snippet_queries, extraction_terms, selected_snippets,
                  indices_to_keep, hunks, updated_snippets, fetch_msgs,
                  prune_msgs, plan_msgs, update_msgs, calls, new_code,
                  embed_state>>

LocateInit ==
    /\ pc = "pool"
    /\ DEBUG = FALSE
    /\ file_path \in {"a.py", "a.txt"}
    /\ file_contents \in Texts
    /\ file_change_request = Request("request", NoText)
    /\ round_contents = file_contents
    /\ round_request = file_change_request
    /\ new_file = NoText
    /\ leftover_comments = FALSE
    /\ additional_changes_required = FALSE
    /\ pass = 0
    /\ branch = "initial"
    /\ rounds = 1
    /\ snippet_queries \in SeqsUpTo(WideQueryKinds(NumLines(file_contents)), MaxPool)
    /\ extraction_terms \in ListsUpTo(TermKinds(NumLines(file_contents)), MaxTerms)
    /\ selected_snippets = <<>>
    /\ indices_to_keep = {}
    /\ hunks = <<>>
    /\ updated_snippets = <<>>
    /\ fetch_msgs = Chat(InitialLog)
    /\ prune_msgs = InitialLog
    /\ plan_msgs = InitialLog
    /\ update_msgs = InitialLog
    /\ error = "none"
    /\ returned = NoText
    /\ calls = <<"fetch">>
    /\ code_tree = "none"
    /\ best_matches = <<>>
    /\ deduped_matches = <<>>
    /\ new_code = <<>>
    /\ EmbedIdle

\* lines 383-437: the pool
PoolMatches ==
    /\ pc = "pool"
    /\ \E tree \in (IF is_python_file THEN WideTreeKinds ELSE {"none"}) :
        /\ code_tree' = tree
        /\ IF tree = "unparsable"
           THEN Raise("CodeTree.from_code") /\ UNCHANGED best_matches
           ELSE \E matches \in {BestMatches(snippet_queries, extraction_terms,
                                            tree, NumLines(round_contents))} :
                /\ best_matches' = matches
                /\ IF NoMatchesFound(matches)
                   THEN Raise("No matches found in file")
                   ELSE pc' = "fuse" /\ UNCHANGED <<error, returned>>
    /\ UNCHANGED <<deduped_matches, locate_frame>>

\* lines 441-464: the sort-and-fuse pass
FuseMatches ==
    /\ pc = "fuse"
    /\ best_matches' = SortMatches(best_matches)
    /\ deduped_matches' = FuseAndDedup(best_matches)
    /\ pc' = "resnap"
    /\ UNCHANGED <<code_tree, error, returned, locate_frame>>

\* lines 465-477: the re-snap of the windows of a .py file
ResnapMatches ==
    /\ pc = "resnap"
    /\ IF code_tree = "none"
       THEN /\ pc' = "windows"
            /\ UNCHANGED <<deduped_matches, error, returned>>
       ELSE \E w \in {Resnap(deduped_matches, code_tree, NumLines(round_contents))} :
            IF w.ok
            THEN /\ deduped_matches' = w.windows
                 /\ pc' = "windows"
                 /\ UNCHANGED <<error, returned>>
            ELSE Raise("get_lines_surrounding") /\ UNCHANGED deduped_matches
    /\ UNCHANGED <<code_tree, best_matches, locate_frame>>

\* lines 441-464 once more, on the windows of the first pass
FuseAgain ==
    /\ pc = "resnap"
    /\ best_matches' = deduped_matches
    /\ deduped_matches' = FuseAndDedup(deduped_matches)
    /\ pc' = "fused again"
    /\ UNCHANGED <<code_tree, error, returned, locate_frame>>

LocateNext ==
    \/ PoolMatches
    \/ FuseMatches
    \/ ResnapMatches
    \/ FuseAgain

LocateSpec == LocateInit /\ [][LocateNext]_vars

(***************************************************************************)
(* Claims on the sort-and-fuse pass and the re-snap (LocateSpec).          *)
(***************************************************************************)
\* the matches of a list, as a set
Elems(s) == {s[i] : i \in DOMAIN s}

\* the pass of lines 441-464 has run on best_matches and given deduped_matches
Fused == pc \in {"resnap", "fused again"}

\* m lies inside the window w
Inside(m, w) == w.start <= m.start /\ m.end <= w.end

\* m1 ends where m2 starts, or within FUSE_OFFSET lines of it
Near(m1, m2) == m1.end = m2.start \/ Abs(m1.end - m2.start) <= FUSE_OFFSET

\* C11: after the sort-and-fuse pass, any two matches m1, m2 of the pool
\* with m1.end = m2.start or |m1.end - m2.start| <= 5 lie inside one and the
\* same fused window, whatever else is in the pool and whatever its order.
C11_NearMatchesShareWindow ==
    Fused =>
        \A m1 \in Elems(best_matches) : \A m2 \in Elems(best_matches) :
            Near(m1, m2) =>
                \E w \in Elems(deduped_matches) : Inside(m1, w) /\ Inside(m2, w)

\* two matches that do not touch, 5 lines apart, in one of several windows
C11_Witness ==
    /\ pc = "resnap"
    /\ Len(deduped_matches) > 1
    /\ \E m1 \in Elems(best_matches) : \E m2 \in Elems(best_matches) :
        /\ m2.start - m1.end = FUSE_OFFSET
        /\ \E w \in Elems(deduped_matches) : Inside(m1, w) /\ Inside(m2, w)

\* some fused window holds both m1 and m2
ShareWindow(m1, m2) ==
    \E w \in Elems(deduped_matches) : Inside(m1, w) /\ Inside(m2, w)

\* line c splits the pool: every match ends at or before c or starts more
\* than FUSE_OFFSET lines after it
Splits(c, pool) ==
    \A m \in Elems(pool) : m.end <= c \/ m.start > c + FUSE_OFFSET

\* C12 as stated: two matches of the pool that do not overlap and whose gap
\* (start of the later minus end of the earlier) is more than 5 lines are in
\* separate fused windows after the sort-and-fuse pass.
C12_FarMatchesSeparate ==
    Fused =>
        \A m1 \in Elems(best_matches) : \A m2 \in Elems(best_matches) :
            m2.start - m1.end > FUSE_OFFSET => ~ShareWindow(m1, m2)

\* C12: two matches m1, m2 of the pool are in separate fused windows after
\* the sort-and-fuse pass when some line c at or after the end of m1 and more
\* than 5 lines before the start of m2 splits the whole pool, the header
\* match included.
C12_SplitMatchesSeparate ==
    Fused =>
        \A m1 \in Elems(best_matches) : \A m2 \in Elems(best_matches) :
            (\E c \in m1.end..m2.start :
                m2.start > c + FUSE_OFFSET /\ Splits(c, best_matches))
            => ~ShareWindow(m1, m2)

\* the header match and a match that starts 6 lines after its end, apart
C12_Witness ==
    /\ pc = "resnap"
    /\ \E m1 \in Elems(best_matches) : \E m2 \in Elems(best_matches) :
        /\ m2.start - m1.end = FUSE_OFFSET + 1
        /\ Splits(m1.end, best_matches)
        /\ ~ShareWindow(m1, m2)

\* the windows of lines 479-483 are those of deduped_matches
Resnapped == pc = "windows"

\* the line indices of the range [start, end) of a match
Covered(m) == m.start..(m.end - 1)

\* C13: fusion never shrinks coverage: every line index covered by a match
\* of the pool is covered by some edit window, directly after the fuse scan
\* and after the re-snap (the snapper returning a block that encloses the
\* queried line).
C13_CoverageKept ==
    (Fused \/ Resnapped) =>
        \A m \in Elems(best_matches) : \A line \in Covered(m) :
            \E w \in Elems(deduped_matches) : line \in Covered(w)

\* several matches fused into fewer, re-snapped windows of a .py file
C13_Witness ==
    /\ Resnapped
    /\ code_tree = "block"
    /\ 1 < Len(deduped_matches)
    /\ Len(deduped_matches) < Len(best_matches)
    /\ deduped_matches # FuseAndDedup(best_matches)

\* C14: the edit windows handed to selection and patching are in ascending
\* start order and pairwise disjoint: each window ends at or before the
\* start of the next, for plain-text and for re-snapped (.py) files alike.
C14_WindowsDisjoint ==
    Resnapped =>
        \A i \in DOMAIN deduped_matches : \A j \in DOMAIN deduped_matches :
            i < j =>
                /\ deduped_matches[i].start < deduped_matches[j].start
                /\ deduped_matches[i].end <= deduped_matches[j].start

\* the pass has run on the windows it produced: best_matches holds those
\* windows, deduped_matches the outcome of the second run
FusedAgain == pc = "fused again"

\* C15: fusion is idempotent: the sort-and-fuse pass run on the list of
\* windows that a sort-and-fuse pass produced returns exactly that list, the
\* same windows in the same order with the same scores.
C15_FusionIdempotent == FusedAgain => deduped_matches = best_matches

\* a second run over several windows, one of them fused from several matches
C15_Witness ==
    /\ FusedAgain
    /\ Len(deduped_matches) > 1
    /\ \E w \in Elems(deduped_matches) : w.score < 100 /\ w.end - w.start > SpanLen

\* a match with start <= end and a score between 0 and 100
WellFormed(m) == m.start <= m.end /\ 0 <= m.score /\ m.score <= 100

\* the running matches (current_match) of the scan over the sorted pool
RunningMatches(pool) ==
    {FuseScan(SortMatches(pool), k).current_match : k \in 1..Len(pool)}

\* C16: every Match that exists during update_file (accepted quotation
\* matches, keyword-line matches, call-site matches, the header match, every
\* fused match and every re-snapped window) has start <= end and
\* 0 <= score <= 100.
C16_MatchesWellFormed ==
    /\ \A m \in Elems(best_matches) \cup Elems(deduped_matches) : WellFormed(m)
    /\ pc = "fuse" => \A m \in RunningMatches(best_matches) : WellFormed(m)

\* re-snapped windows, one of them fused from a quotation and a keyword or
\* call-site match
C16_Witness ==
    /\ Resnapped
    /\ code_tree \in {"identity", "block", "whole"}
    /\ Len(best_matches) > 2
    /\ \E w \in Elems(deduped_matches) :
        /\ w.score = ScoreThreshold + 1
        /\ \E m \in Elems(best_matches) : m.score = 100 /\ m.start > 0 /\ Inside(m, w)

(***************************************************************************)
(* update_file, lines 572-618, on the texts of the windows.  A string is   *)
(* the sequence of its lines as str.split("\n") gives them (never empty:   *)
(* "" is <<"">>, and a string that ends with a newline has "" as its last  *)
(* line); the text of a window, "\n".join(file_contents_lines[start:end]), *)
(* is the sequence of the lines of the window.  A hunk is its index and    *)
(* the lines of its two blocks.  sliding_window_replacement                *)
(* (sweepai.utils.diff) is not part of the sources at hand: it replaces    *)
(* the first run of lines equal to the search by the replacement, and      *)
(* appends the replacement when there is no such run.  The validator keeps *)
(* the updated_snippets it was created with.                               *)
(***************************************************************************)
\* the texts of the retained windows
WindowTexts == {<<"a">>, <<"a", "">>, <<"", "a">>, <<"a", "a">>}

\* the updated blocks of the hunks
UpdatedBlocks == {<<"b">>, <<"", "b">>}

\* str.splitlines(): the lines, without the empty last line of a string
\* that is empty or ends with a newline
Splitlines(str) ==
    IF str[Len(str)] = "" THEN SubSeq(str, 1, Len(str) - 1) ELSE str

\* "\n".join(lines)
JoinLines(lines) == IF lines = <<>> THEN <<"">> ELSE lines

\* str.strip("\n"): without the newlines at its two ends, that is, without
\* the empty lines before its first and after its last non-empty line
StripNewlines(str) ==
    LET full == {i \in 1..Len(str) : str[i] # ""}
    IN IF full = {} THEN <<"">>
       ELSE SubSeq(str, CHOOSE i \in full : \A j \in full : i <= j,
                        CHOOSE i \in full : \A j \in full : i >= j)

\* the places where the run of lines search starts in original
Occurrences(original, search) ==
    {p \in 1..(Len(original) - Len(search) + 1) :
        SubSeq(original, p, p + Len(search) - 1) = search}

\* lines with the run of len lines that starts at place p replaced
ReplaceRun(lines, p, len, replace) ==
    SubSeq(lines, 1, p - 1) \o replace \o SubSeq(lines, p + len, Len(lines))

\* sliding_window_replacement(original, search, replace)[0]
sliding_window_replacement(original, search, replace) ==
    LET found == Occurrences(original, search)
    IN IF found = {} THEN original \o replace
       ELSE ReplaceRun(original, CHOOSE p \in found : \A q \in found : p <= q,
                       Len(search), replace)

\* lines 574-575 and 582-588: the text of a window after one hunk
Reconcile(current, original_code, updated_code) ==
    JoinLines(sliding_window_replacement(
        Splitlines(current),
        Splitlines(StripNewlines(original_code)),
        Splitlines(StripNewlines(updated_code))))

\* the text every hunk is applied to is the text of the window as selected
current_contents_selected(index, selected, updated) == selected[index + 1]

\* lines 577-581: the text a hunk for this index is applied to
current_contents(index, selected, updated) ==
    IF index \notin DOMAIN updated THEN selected[index + 1] ELSE updated[index]

\* updated_snippets[index] = text
Put(updated, index, text) ==
    [i \in DOMAIN updated \cup {index} |-> IF i = index THEN text ELSE updated[i]]

\* the blocks a hunk can quote from a text: its runs of lines that hold a
\* line that is not empty
Runs(text) ==
    {b \in {SubSeq(text, p, q) : p \in 1..Len(text), q \in 1..Len(text)} :
        \E i \in 1..Len(b) : b[i] # ""}

\* list.index(x): the first place of x in the list, from 0
FirstIndex(list, x) ==
    (CHOOSE k \in 1..Len(list) :
        list[k] = x /\ \A j \in 1..(k - 1) : list[j] # x) - 1

\* change_validator.updated_snippets
ValidatorSnippets(updated) == updated

\* lines 608-613: what the window at place idx adds to new_code
NewCodeOf(idx, selected, updated) ==
    LET first == FirstIndex(selected, selected[idx + 1])
    IN IF idx \notin DOMAIN updated THEN <<>>
       ELSE IF first \notin DOMAIN ValidatorSnippets(updated) THEN <<>>
       ELSE <<ValidatorSnippets(updated)[first]>>

\* lines 606-613: new_code after the first k windows
RECURSIVE NewCode(_, _, _)
NewCode(k, selected, updated) ==
    IF k = 0 THEN <<>>
    ELSE NewCode(k - 1, selected, updated) \o NewCodeOf(k - 1, selected, updated)

\* the lines of the texts of a list, one text after the other
RECURSIVE LinesOf(_)
LinesOf(texts) ==
    IF texts = <<>> THEN <<>> ELSE Head(texts) \o LinesOf(Tail(texts))

\* line 618: "\n".join(new_code)
JoinTexts(texts) == JoinLines(LinesOf(texts))

\* what the steps of PatchSpec leave alone
patch_frame == <<DEBUG, file_path, file_contents, file_change_request,
                 round_contents, round_request, new_file, leftover_comments,
                 additional_changes_required, pass, branch, rounds,
                 snippet_queries, extraction_terms, selected_snippets,
                 indices_to_keep, fetch_msgs, prune_msgs, plan_msgs,
                 update_msgs, calls, code_tree, best_matches,
                 deduped_matches, embed_state>>

\* line 563: one or two windows retained by the selector and a response
\* whose hunks are about to be applied
PatchInit ==
    /\ pc = "hunks"
    /\ DEBUG = FALSE
    /\ file_path = "a.txt"
    /\ file_contents = [body |-> ShortFile, nl |-> 0]
    /\ file_change_request = Request("request", NoText)
    /\ round_contents = file_contents
    /\ round_request = file_change_request
    /\ new_file = NoText
    /\ leftover_comments = FALSE
    /\ additional_changes_required = FALSE
    /\ pass = 0
    /\ branch = "initial"
    /\ rounds = 1
    /\ snippet_queries = <<>>
    /\ extraction_terms = <<>>
    /\ selected_snippets \in
        {<<u>> : u \in WindowTexts} \cup {<<u, v>> : u \in WindowTexts, v \in WindowTexts}
    /\ indices_to_keep = {i - 1 : i \in DOMAIN selected_snippets}
    /\ hunks = <<>>
    /\ updated_snippets = <<>>
    /\ fetch_msgs = Chat(InitialLog)
    /\ prune_msgs = Chat(InitialLog)
    /\ plan_msgs = Chat(InitialLog)
    /\ update_msgs = Chat(InitialLog)
    /\ error = "none"
    /\ returned = NoText
    /\ calls = <<"fetch", "prune", "plan", "generate">>
    /\ code_tree = "none"
    /\ best_matches = <<>>
    /\ deduped_matches = <<>>
    /\ new_code = <<>>
    /\ EmbedIdle

\* lines 572-588: one turn of the loop over the hunks of the response
ApplyHunk ==
    /\ pc = "hunks"
    /\ Len(hunks) < MaxPatchHunks
    /\ \E index \in 0..Len(selected_snippets) :
        IF index >= Len(selected_snippets)
        THEN Raise("IndexError") /\ UNCHANGED <<hunks, updated_snippets>>
        ELSE \E current \in {current_contents(index, selected_snippets,
                                              updated_snippets)} :
             \E original_code \in Runs(current) :
             \E updated_code \in UpdatedBlocks :
                /\ hunks' = Append(hunks, [index |-> index,
                                           original_code |-> original_code,
                                           updated_code |-> updated_code])
                /\ updated_snippets' =
                        Put(updated_snippets, index,
                            Reconcile(current, original_code, updated_code))
                /\ UNCHANGED <<pc, error, returned>>
    /\ UNCHANGED <<new_code, patch_frame>>

\* lines 606-618: new_code, once the hunks of the response are applied
Recombine ==
    /\ pc = "hunks"
    /\ hunks # <<>>
    /\ new_code' = JoinTexts(NewCode(Len(selected_snippets), selected_snippets,
                                     updated_snippets))
    /\ pc' = "recombined"
    /\ UNCHANGED <<hunks, updated_snippets, error, returned, patch_frame>>

PatchNext ==
    \/ ApplyHunk
    \/ Recombine

PatchSpec == PatchInit /\ [][PatchNext]_vars

(***************************************************************************)
(* Claims on the hunks and the recombination (PatchSpec).                  *)
(***************************************************************************)
\* the text of a window after those hunks of the list that reference index,
\* each applied to the outcome of the one before
RECURSIVE Chained(_, _, _)
Chained(text, applied, index) ==
    IF applied = <<>> THEN text
    ELSE LET h == Head(applied)
         IN Chained(IF h.index = index
                    THEN Reconcile(text, h.original_code, h.updated_code)
                    ELSE text,
                    Tail(applied), index)

\* the indices the hunks of a list reference
Indices(applied) == {applied[i].index : i \in DOMAIN applied}

\* C17: hunks that reference the same window index are applied cumulatively
\* in the order of the response: the first to the window's original text,
\* each later one to the result of the previous hunk for that index; hunks
\* for other indices in between do not affect it.
C17_HunksCumulative ==
    error = "none" =>
        /\ DOMAIN updated_snippets = Indices(hunks)
        /\ \A index \in DOMAIN updated_snippets :
            updated_snippets[index] =
                Chained(selected_snippets[index + 1], hunks, index)

\* two hunks for one window with a hunk for the other window in between, the
\* later of the two changing what the earlier one wrote
C17_Witness ==
    /\ Len(hunks) = MaxPatchHunks
    /\ error = "none"
    /\ \E i \in DOMAIN hunks : \E j \in DOMAIN hunks : \E k \in DOMAIN hunks :
        /\ i < j /\ j < k
        /\ hunks[i].index = hunks[k].index
        /\ hunks[j].index # hunks[i].index
        /\ hunks[k].original_code = hunks[i].updated_code
        /\ updated_snippets[hunks[i].index] # selected_snippets[hunks[i].index + 1]

\* the reconciled texts of those of the first k windows that received a
\* hunk, in window order
RECURSIVE PatchedTexts(_, _)
PatchedTexts(k, updated) ==
    IF k = 0 THEN <<>>
    ELSE PatchedTexts(k - 1, updated)
            \o (IF (k - 1) \in DOMAIN updated THEN <<updated[k - 1]>> ELSE <<>>)

\* C18: windows with no accepted hunk are left out of the recombination: the
\* recombined text is the concatenation, in window order, of the reconciled
\* text of each retained window that received at least one hunk, each
\* contributing its own text once, also when two windows have the same
\* original text.
C18_RecombinesPatchedWindows ==
    pc = "recombined" =>
        new_code = JoinTexts(PatchedTexts(Len(selected_snippets), updated_snippets))

\* C19: round trip of one hunk: when the original block of the hunk equals a
\* run of lines of the window text, the reconciled text is the window text
\* with that run replaced by the updated block, every other line unchanged
\* and in order, and the number of lines changes by the length of the
\* updated block minus the length of the original block.
C19_OneHunkRoundTrip ==
    (Len(hunks) = 1 /\ error = "none") =>
        \E h \in {hunks[1]} : \E window \in {selected_snippets[hunks[1].index + 1]} :
            /\ \E p \in Occurrences(window, h.original_code) :
                updated_snippets[h.index] =
                    ReplaceRun(window, p, Len(h.original_code), h.updated_code)
            /\ Len(updated_snippets[h.index]) =
                    Len(window) + Len(h.updated_code) - Len(h.original_code)

(***************************************************************************)
(* Claim on the failures of the syntax tree (LocateSpec).                  *)
(***************************************************************************)
\* the syntax tree of the .py file cannot be built, or raises when asked
\* for the block of a line
SnapperFails == code_tree \in {"throws", "unparsable"}

\* C20: a failure of the syntax snapper is never fatal: when building the
\* code tree or snapping a line fails for a .py file, update_file goes on
\* with the identity range for that line and no exception leaves it, in the
\* keyword-line snap and in the re-snap of the window boundaries.
C20_SnapperFailureNotFatal ==
    SnapperFails =>
        /\ error \notin {"CodeTree.from_code", "get_lines_surrounding"}
        /\ Resnapped => deduped_matches = Resnap(FuseAndDedup(best_matches),
                                                 "identity",
                                                 NumLines(round_contents)).windows

(***************************************************************************)
(* Claims on the candidate pool (LocateSpec).                              *)
(***************************************************************************)
\* best_matches holds the pool of line 436, in the order of the appends or
\* sorted
Pooled == pc \in {"fuse", "resnap", "windows"}

\* the lines that contain some extraction term
KeywordLines ==
    {h[1] : h \in KeywordHits(extraction_terms, NumLines(round_contents))}

\* the call sites (first line, last line) of the extraction terms
CallSiteRanges ==
    UNION {extraction_terms[i].calls : i \in DOMAIN extraction_terms}

\* some match of the list has score 100 and covers the line
InPoolAt100(line, pool) ==
    \E m \in Elems(pool) : m.score = 100 /\ line \in Covered(m)

\* C21: every line that contains an extraction term and every call site of
\* an extraction term enters the pool as a match of score 100, and a match
\* of score 100 over lines 0 to min(10, number of lines) is always in the
\* pool; every such line, call site and the header region is then covered
\* by some edit window, also when no quotation mentions it.
C21_TermsAndHeaderPooled ==
    /\ Pooled =>
        /\ \A line \in KeywordLines : InPoolAt100(line, best_matches)
        /\ \A c \in CallSiteRanges :
                Match(c[1], c[2] + 1, 100) \in Elems(best_matches)
        /\ HeaderMatch(NumLines(round_contents)) \in Elems(best_matches)
    /\ (pc \in {"resnap", "windows"}) =>
        \A line \in KeywordLines
                    \cup UNION {c[1]..c[2] : c \in CallSiteRanges}
                    \cup Covered(HeaderMatch(NumLines(round_contents))) :
            \E w \in Elems(deduped_matches) : line \in Covered(w)

\* no quotation, a term with a keyword line and a call site far from the
\* header, and the windows of a .py file
C21_Witness ==
    /\ Resnapped
    /\ snippet_queries = <<>>
    /\ code_tree = "block"
    /\ CallSiteRanges # {}
    /\ KeywordLines # {}
    /\ Len(deduped_matches) > 1

\* what one quotation adds to the pool: split, one match per section that
\* scores above the threshold; whole, its match when it scores above it
RECURSIVE AcceptedSections(_)
AcceptedSections(answers) ==
    IF answers = <<>> THEN <<>>
    ELSE (IF Head(answers).score > ScoreThreshold THEN <<Head(answers)>> ELSE <<>>)
            \o AcceptedSections(Tail(answers))

Contribution(q) ==
    IF q.dots > 2 THEN AcceptedSections(q.answers)
    ELSE AcceptedSections(<<q.answers[1]>>)

RECURSIVE Contributions(_)
Contributions(queries) ==
    IF queries = <<>> THEN <<>>
    ELSE Contribution(Head(queries)) \o Contributions(Tail(queries))

\* the matches of the pool that precede those of the extraction terms and
\* the header match
QuotationPart(pool) ==
    SubSeq(pool, 1,
           Len(pool) - 1 - Cardinality(KeywordHits(extraction_terms,
                                                   NumLines(round_contents)))
                         - Len(CallMatches(extraction_terms)))

\* C22: a quotation is split only when it holds more than two elision
\* markers, and then every section is located on its own and adds its match
\* to the pool iff its score is above 50; a quotation with at most two
\* markers is located as a whole and adds at most one match, iff its score
\* is above 50 (a score of exactly 50 adds nothing).
C22_QuotationsSplitAndAccepted ==
    pc = "fuse" => QuotationPart(best_matches) = Contributions(snippet_queries)

\* a quotation with two markers located as a whole next to a split one, one
\* of whose sections scores exactly 50
C22_Witness ==
    /\ pc = "fuse"
    /\ \E i \in DOMAIN snippet_queries : \E j \in DOMAIN snippet_queries :
        /\ snippet_queries[i].dots = 2
        /\ Len(snippet_queries[i].answers) > 1
        /\ snippet_queries[j].dots > 2
        /\ \E k \in DOMAIN snippet_queries[j].answers :
                snippet_queries[j].answers[k].score = ScoreThreshold
    /\ Len(QuotationPart(best_matches)) = 2

(***************************************************************************)
(* sweepai/core/vector_db.py, lines 135-211: openai_with_expo_backoff      *)
(* under its backoff decorator.  A text is "a", "b" or "long" (more than   *)
(* 8192 tokens); an embedding says which text it is the embedding of and   *)
(* where it comes from.  redis_client holds, for the cache key of a text,  *)
(* nothing, the JSON of its embedding or a value json.loads rejects; while *)
(* it cannot be reached its mget and its mset raise, and it may be lost or *)
(* found again while the service is called.  The embedding service         *)
(* (openai_call_embedding_router) answers a batch, refuses a batch of more *)
(* texts than it takes at once, times out or fails otherwise.              *)
(* redis_client is a Redis object and as such true: line 159 is not        *)
(* reached.                                                                *)
(***************************************************************************)
EmbedTexts == {"a", "b", "long"}

\* tiktoken_client.count(text) > 8192
TokenCountExceeded(text) == text = "long"

\* tiktoken_client.truncate_string(text)
truncate_string(text) == IF TokenCountExceeded(text) THEN "long, truncated" ELSE text

\* hash_sha256(text) + CACHE_VERSION
CacheKey(text) == [sha256 |-> text, version |-> "CACHE_VERSION"]

\* the embedding of a text, computed by the service or read from the cache
Embedding(text, origin) == [of |-> text, from |-> origin]

\* embeddings = [None] * len(batch): the place of an embedding not yet known
None == [of |-> "", from |-> "None"]

\* what redis_client can hold for a cache key
CacheValues == {"nil", "json", "undecodable"}

\* a failed mget taken for a read that finds every text
ReadCacheHitsOnFailure(texts, store, mget_raises) ==
    [i \in 1..Len(texts) |->
        IF mget_raises \/ store[CacheKey(texts[i])] = "json"
        THEN Embedding(texts[i], "cache")
        ELSE None]

\* lines 164-168: embeddings after the loop over redis_client.mget(cache_keys),
\* which stops at the first value json.loads rejects and, when mget raises,
\* before its first turn
ReadCache(texts, store, mget_raises) ==
    LET rejected == {i \in 1..Len(texts) : store[CacheKey(texts[i])] = "undecodable"}
        stop == IF mget_raises THEN 0
                ELSE IF rejected = {} THEN Len(texts) + 1
                ELSE CHOOSE i \in rejected : \A j \in rejected : i <= j
    IN [i \in 1..Len(texts) |->
            IF i < stop /\ store[CacheKey(texts[i])] = "json"
            THEN Embedding(texts[i], "cache")
            ELSE None]

\* lines 170-172: the texts whose embedding is still None
Uncached(texts, found) ==
    LET RECURSIVE Rest(_)
        Rest(i) == IF i > Len(texts) THEN <<>>
                   ELSE (IF found[i] = None THEN <<texts[i]>> ELSE <<>>) \o Rest(i + 1)
    IN Rest(1)

\* lines 135-149: openai_call_embedding on a service that takes at most
\* limit texts at once: a batch it refuses is split in half, the halves are
\* embedded one after the other and the answers concatenated
RECURSIVE openai_call_embedding(_, _)
openai_call_embedding(texts, limit) ==
    IF Len(texts) <= limit \/ Len(texts) <= 1
    THEN [i \in 1..Len(texts) |-> Embedding(texts[i], "service")]
    ELSE LET mid == Len(texts) \div 2
         IN openai_call_embedding(SubSeq(texts, 1, mid), limit)
                \o openai_call_embedding(SubSeq(texts, mid + 1, Len(texts)), limit)

\* the new embeddings stored at the first places of the list
PlaceFromStart(found, fresh) ==
    [i \in 1..Len(found) |-> IF i <= Len(fresh) THEN fresh[i] ELSE found[i]]

\* lines 193-197: the new embeddings stored at the places that are None
Place(found, fresh) ==
    LET RECURSIVE Fill(_, _)
        Fill(i, k) == IF i > Len(found) THEN <<>>
                      ELSE IF found[i] = None
                      THEN <<fresh[k]>> \o Fill(i + 1, k + 1)
                      ELSE <<found[i]>> \o Fill(i + 1, k)
    IN Fill(1, 1)

\* lines 200-205: redis_client.mset of every cache key of the batch
Stored(store, texts) ==
    [key \in DOMAIN store |->
        IF \E i \in 1..Len(texts) : key = CacheKey(texts[i]) THEN "json"
        ELSE store[key]]

\* the texts of a list, truncated
Truncated(texts) == [i \in 1..Len(texts) |-> truncate_string(texts[i])]

\* what the steps of EmbedSpec leave alone
embed_frame == <<DEBUG, file_path, file_contents, file_change_request,
                 round_contents, round_request, new_file, leftover_comments,
                 additional_changes_required, pass, branch, rounds,
                 snippet_queries, extraction_terms, selected_snippets,
                 indices_to_keep, hunks, updated_snippets, fetch_msgs,
                 prune_msgs, plan_msgs, update_msgs, calls, locate_state>>

\* the decorator makes its first call, with a batch of at most MaxBatch texts
EmbedInit ==
    /\ pc = "read"
    /\ DEBUG = FALSE
    /\ file_path = "a.txt"
    /\ file_contents = [body |-> ShortFile, nl |-> 0]
    /\ file_change_request = Request("request", NoText)
    /\ round_contents = file_contents
    /\ round_request = file_change_request
    /\ new_file = NoText
    /\ leftover_comments = FALSE
    /\ additional_changes_required = FALSE
    /\ pass = 0
    /\ branch = "initial"
    /\ rounds = 0
    /\ snippet_queries = <<>>
    /\ extraction_terms = <<>>
    /\ selected_snippets = <<>>
    /\ indices_to_keep = {}
    /\ hunks = <<>>
    /\ updated_snippets = <<>>
    /\ fetch_msgs = InitialLog
    /\ prune_msgs = InitialLog
    /\ plan_msgs = InitialLog
    /\ update_msgs = InitialLog
    /\ error = "none"
    /\ returned = NoText
    /\ calls = <<>>
    /\ code_tree = "none"
    /\ best_matches = <<>>
    /\ deduped_matches = <<>>
    /\ new_code = <<>>
    /\ args \in SeqsUpTo(EmbedTexts, MaxBatch)
    /\ batch = args
    /\ embeddings = <<>>
    /\ new_embeddings = "unbound"
    /\ redis_store \in [reachable : BOOLEAN,
                        values : [{CacheKey(text) : text \in EmbedTexts} -> CacheValues]]
    /\ tries = 1
    /\ service_calls = 0

\* requests.exceptions.Timeout leaves the function: the decorator calls it
\* again with the same batch, unless that was the last try
TimeoutLeaves ==
    IF tries < max_tries
    THEN /\ tries' = tries + 1
         /\ pc' = "read"
         /\ batch' = args
         /\ embeddings' = <<>>
         /\ new_embeddings' = "unbound"
         /\ UNCHANGED <<error, returned>>
    ELSE /\ Raise("requests.exceptions.Timeout")
         /\ UNCHANGED <<tries, batch, embeddings, new_embeddings>>

\* lines 161-175: the cache is read; with every text found the function
\* returns
ReadEmbeddings ==
    /\ pc = "read"
    /\ \E found \in {ReadCache(args, redis_store.values, ~redis_store.reachable)} :
        /\ embeddings' = found
        /\ batch' = Uncached(args, found)
        /\ pc' = IF Uncached(args, found) = <<>> THEN "returned" ELSE "call"
    /\ UNCHANGED <<args, new_embeddings, redis_store, tries, service_calls,
                   error, returned, embed_frame>>

\* lines 176-195: the service is called; after a timeout that is caught at
\* line 180 new_embeddings is unbound when line 195 reads it
CallEmbedding ==
    /\ pc = "call"
    /\ \E outcome \in {"answers", "timeout", "fails"}, limit \in 1..MaxBatch :
        CASE outcome = "answers" ->
                /\ new_embeddings' = openai_call_embedding(batch, limit)
                /\ pc' = "store"
                /\ service_calls' = service_calls + 1
                /\ UNCHANGED <<batch, embeddings, tries, error, returned>>
          [] outcome = "timeout" ->
                /\ Raise("UnboundLocalError")
                /\ service_calls' = service_calls + 1
                /\ UNCHANGED <<batch, embeddings, new_embeddings, tries>>
          [] outcome = "fails" /\ \A i \in 1..Len(batch) : ~TokenCountExceeded(batch[i]) ->
                /\ Raise("Exception")
                /\ service_calls' = service_calls + 1
                /\ UNCHANGED <<batch, embeddings, new_embeddings, tries>>
          [] OTHER ->
                /\ service_calls' = service_calls + 2
                /\ \E second \in {"answers", "timeout", "fails"} :
                    CASE second = "answers" ->
                            /\ batch' = Truncated(batch)
                            /\ new_embeddings' =
                                    openai_call_embedding(Truncated(batch), limit)
                            /\ pc' = "store"
                            /\ UNCHANGED <<embeddings, tries, error, returned>>
                      [] second = "timeout" -> TimeoutLeaves
                      [] OTHER ->
                            /\ Raise("Exception")
                            /\ UNCHANGED <<batch, embeddings, new_embeddings, tries>>
    /\ \E reachable \in BOOLEAN :
        redis_store' = [redis_store EXCEPT !.reachable = reachable]
    /\ UNCHANGED <<args, embed_frame>>

\* lines 192-211: the new embeddings are put in place and the cache is
\* written
StoreEmbeddings ==
    /\ pc = "store"
    /\ embeddings' = Place(embeddings, new_embeddings)
    /\ redis_store' = IF redis_store.reachable
                      THEN [redis_store EXCEPT !.values = Stored(@, args)]
                      ELSE redis_store
    /\ pc' = "returned"
    /\ UNCHANGED <<args, batch, new_embeddings, tries, service_calls, error,
                   returned, embed_frame>>

EmbedNext ==
    \/ ReadEmbeddings
    \/ CallEmbedding
    \/ StoreEmbeddings

EmbedSpec == EmbedInit /\ [][EmbedNext]_vars

(***************************************************************************)
(* Claims on openai_with_expo_backoff (EmbedSpec).                         *)
(***************************************************************************)
\* no embedding is known for any text of the batch
AllMisses == [i \in 1..Len(args) |-> None]

\* C23: failures of the cache are recovered locally: when reading the cache
\* (mget) fails, every text counts as a miss and the call goes on to the
\* service; when writing the cache (mset) fails, the write is dropped and
\* the call returns one embedding per input text; neither failure is
\* raised to the caller.
C23_CacheFailuresRecovered ==
    [][/\ (pc = "read" /\ ~redis_store.reachable) =>
            /\ pc' # "raised"
            /\ error' = "none"
            /\ embeddings' = AllMisses
            /\ batch' = args
       /\ (pc = "store" /\ ~redis_store.reachable) =>
            /\ pc' = "returned"
            /\ error' = "none"
            /\ Len(embeddings') = Len(args)
            /\ \A i \in 1..Len(args) : embeddings'[i] # None
            /\ redis_store' = redis_store]_vars

\* a full batch returned from the service alone, with a cache that holds the
\* embedding of its first text and could neither be read nor written
C23_Witness ==
    /\ pc = "returned"
    /\ ~redis_store.reachable
    /\ Len(args) = MaxBatch
    /\ redis_store.values[CacheKey(args[1])] = "json"
    /\ tries = 1
    /\ \A i \in 1..Len(args) : embeddings[i] = Embedding(args[i], "service")

\* C24: a timeout of the embedding service is retried, up to 5 tries in
\* all, and never turns into another failure: the function fails only with
\* the exception the service raised, and with a timeout only when the fifth
\* try timed out.
C24_TimeoutRetried ==
    pc = "raised" =>
        /\ error \in {"Exception", "requests.exceptions.Timeout"}
        /\ error = "requests.exceptions.Timeout" => tries = max_tries

\* the embedding at place i is the embedding of text i of the batch: read
\* from the cache, or computed by the service from the text (from the
\* truncated text when the batch had to be truncated)
BelongsTo(embedding, text) ==
    \/ embedding = Embedding(text, "cache")
    \/ embedding = Embedding(text, "service")
    \/ embedding = Embedding(truncate_string(text), "service")

StageOrder == <<"fetch", "select", "plan", "generate", "detector">>

\* the place of a collaborator in StageOrder
StageOf(name) == The({i \in DOMAIN StageOrder : StageOrder[i] = name})

\* the calls of the round to the collaborators of StageOrder, in order
RECURSIVE Collaborators(_)
Collaborators(made) ==
    IF made = <<>> THEN <<>>
    ELSE (IF \E i \in DOMAIN StageOrder : StageOrder[i] = Head(made)
          THEN <<Head(made)>> ELSE <<>>) \o Collaborators(Tail(made))

\* every call is to a later collaborator of StageOrder than the call before
InStageOrder(made) ==
    \A i \in 1..(Len(made) - 1) : StageOf(made[i]) < StageOf(made[i + 1])

\* the collaborators whose call sites are at or before the stage pc names
UpTo(stage) ==
    CASE stage = "fetch" -> {"fetch"}
      [] stage = "locate" -> {"fetch"}
      [] stage = "select" -> {"fetch", "select"}
      [] stage = "plan" -> {"fetch", "select", "plan"}
      [] stage = "generate" -> {"fetch", "select", "plan", "generate"}
      [] OTHER -> {"fetch", "select", "plan", "generate", "detector"}

\* the selector is asked only about more than one window, a single window
\* is retained without it; a stage that raises leaves the round with no
\* call to a collaborator of a later stage, and nothing is called after it
StagesGuarded ==
    [][/\ pc = "select" =>
            /\ Collaborators(calls') # Collaborators(calls) =>
                    Len(selected_snippets) > 1
            /\ Len(selected_snippets) = 1 =>
                    /\ calls' = calls
                    /\ pc' = "plan"
                    /\ selected_snippets' = selected_snippets
       /\ pc' = "raised" =>
            /\ pc # "raised"
            /\ \A i \in DOMAIN calls' : calls'[i] \in UpTo(pc) \cup {"validator"}]_vars

\* a round that runs to its end has called the fetcher, the planner, the
\* generator and the detector
RoundCallsAll ==
    [][pc = "validate" =>
            \A name \in {"fetch", "plan", "generate", "detector"} :
                \E i \in DOMAIN calls' : calls'[i] = name]_vars

C26_RaiseReturnsNoText ==
    /\ pc = "raised" => (error # "none" /\ returned = NoText)
    /\ pc = "done" => error = "none"

\* UnneededEditError in a retry round, after a round that produced a text
C26_Witness ==
    /\ pc = "raised"
    /\ error = "No snippets found in file"
    /\ branch # "initial"
    /\ new_file # NoText
    /\ rounds > 0

\* the messages of the UnneededEditError raised at lines 368, 437, 510, 570
UnneededEditErrors ==
    {"No snippets found in file", "No matches found in file",
     "No snippets selected", "No snippets edited"}

\* the edits of the hunks of a response whose index is idx, in order
RECURSIVE EditsFor(_, _)
EditsFor(response, idx) ==
    IF response = <<>> THEN <<>>
    ELSE (IF Head(response).index = idx THEN <<Head(response).edit>> ELSE <<>>)
            \o EditsFor(Tail(response), idx)

\* the hunk's index is the 0-based place of a retained window
NamesWindow(hunk, windows) == hunk.index \in 0..(Len(windows) - 1)

\* C27: the hunks of a response are applied to the retained window at the
\* 0-based place their index names and to no other; a response with a hunk
\* whose index names no retained window ends the round with an error that
\* is not an UnneededEditError, and the round produces no text.
C27_HunkAppliedAtIndex ==
    [][(pc = "generate" /\ hunks' # <<>>) =>
        IF \A i \in DOMAIN hunks' : NamesWindow(hunks'[i], selected_snippets)
        THEN /\ pc' = "validate"
             /\ Len(updated_snippets') = Len(selected_snippets)
             /\ \A place \in DOMAIN selected_snippets :
                    updated_snippets'[place] = EditsFor(hunks', place - 1)
        ELSE /\ pc' = "raised"
             /\ error' \notin UnneededEditErrors
             /\ new_file' = new_file
             /\ returned' = NoText
             /\ updated_snippets' = updated_snippets]_vars

\* of two retained windows the second received the hunk with index 1 and
\* the first nothing
C27_Witness ==
    /\ pc = "validate"
    /\ Len(updated_snippets) = 2
    /\ Len(hunks) > 0
    /\ hunks[1].index = 1
    /\ updated_snippets[1] = <<>>
    /\ updated_snippets[2] # <<>>

====
